---- MODULE Spec2Model ----
(***************************************************************************)
(* Verification model of three of the zsim helper scripts under src/misc:  *)
(*                                                                         *)
(*   patchRoot/genPatchRoot.py  the builder of the synthetic /proc, /sys   *)
(*                              tree (getMask and the build sequence)      *)
(*   ffControl.py               the watcher that calls fftoggle            *)
(*   lint_includes.py           the include-block sorter                   *)
(*                                                                         *)
(* Each script has its own variables and its own specification            *)
(* (SpecMask, SpecBuild, SpecWatch, SpecLint); the variables of the other  *)
(* scripts are pinned while one script runs.                               *)
(***************************************************************************)
EXTENDS Integers, Sequences, FiniteSets, TLC

VARIABLES
    \* getMask called on its own
    mStart, mEnd, mWords, mText, mpc,
    \* genPatchRoot.py
    fs, pc, ncpus, force, nargs, exitCode, warnings, runs, before, prev,
    \* ffControl.py
    stdin, pos, eofReads, maxMatches, emptyMatch, targetShmid, matches,
    calls, wpc,
    \* lint_includes.py
    file, lines, includeBlocks, newIncludes, newLines, writes, lpc

maskVars  == <<mStart, mEnd, mWords, mText, mpc>>
buildVars == <<fs, pc, ncpus, force, nargs, exitCode, warnings, runs, before, prev>>
watchVars == <<stdin, pos, eofReads, maxMatches, emptyMatch, targetShmid,
               matches, calls, wpc>>
lintVars  == <<file, lines, includeBlocks, newIncludes, newLines, writes, lpc>>
vars      == <<maskVars, buildVars, watchVars, lintVars>>

\* what each script leaves alone
notMask  == <<buildVars, watchVars, lintVars>>
notBuild == <<maskVars, watchVars, lintVars>>
notWatch == <<maskVars, buildVars, lintVars>>
notLint  == <<maskVars, buildVars, watchVars>>

(***************************************************************************)
(* genPatchRoot.py: getMask                                                *)
(*                                                                         *)
(* A Python int below 2^32 is held as two 16-bit limbs <<hi, lo>>, since   *)
(* the checker's integers are 32 bits wide and signed.                     *)
(***************************************************************************)

\* range(256) in getMask: the number of bit positions of a mask
MASK_BITS == 256

\* i % 32, (i + 1) % 32 in getMask: the width of one word of a mask
WORD_BITS == 32

ZeroWord == <<0, 0>>

\* a | b on one limb
RECURSIVE BitOr(_, _)
BitOr(a, b) ==
    IF a = 0 THEN b
    ELSE IF b = 0 THEN a
    ELSE (IF (a % 2) = 1 \/ (b % 2) = 1 THEN 1 ELSE 0)
         + 2 * BitOr(a \div 2, b \div 2)

\* 1 << j, for 0 <= j < 32
Shl1(j) == IF j < 16 THEN <<0, 2 ^ j>> ELSE <<2 ^ (j - 16), 0>>

\* cur | w
WordOr(cur, w) == <<BitOr(cur[1], w[1]), BitOr(cur[2], w[2])>>

\* MaskBody with the range test written i > start
MaskBody_ExclusiveStart(i, st, start, end) ==
    LET j   == i % WORD_BITS
        cur == IF i > start /\ i <= end THEN WordOr(st.cur, Shl1(j)) ELSE st.cur
    IN  IF ((i + 1) % WORD_BITS) = 0
        THEN [cur |-> ZeroWord, l |-> Append(st.l, cur)]
        ELSE [cur |-> cur, l |-> st.l]

\* the body of "for i in range(256)": st is the pair of locals (cur, l)
MaskBody(i, st, start, end) ==
    LET j   == i % WORD_BITS
        cur == IF i >= start /\ i <= end THEN WordOr(st.cur, Shl1(j)) ELSE st.cur
    IN  IF ((i + 1) % WORD_BITS) = 0
        THEN [cur |-> ZeroWord, l |-> Append(st.l, cur)]
        ELSE [cur |-> cur, l |-> st.l]

\* the iterations lo .. hi-1 of the loop, in order.  The range is halved and
\* the first half evaluated before the second only to keep the evaluation
\* stack shallow; the iterations run in the order of the for loop.
RECURSIVE MaskIter(_, _, _, _, _)
MaskIter(lo, hi, st, start, end) ==
    IF lo >= hi THEN st
    ELSE IF hi - lo = 1 THEN MaskBody(lo, st, start, end)
    ELSE LET mid  == (lo + hi) \div 2
             half == MaskIter(lo, mid, st, start, end)
         IN  IF half.cur = half.cur
             THEN MaskIter(mid, hi, half, start, end)
             ELSE half

\* l.reverse()
Reverse(l) == [k \in 1 .. Len(l) |-> l[Len(l) + 1 - k]]

\* getMaskWords without l.reverse()
getMaskWords_NoReverse(start, end) ==
    MaskIter(0, MASK_BITS, [cur |-> ZeroWord, l |-> <<>>], start, end).l

\* the list l of getMask after l.reverse(): most-significant word first
getMaskWords(start, end) ==
    Reverse(MaskIter(0, MASK_BITS, [cur |-> ZeroWord, l |-> <<>>], start, end).l)

HexDigits ==
    <<"0", "1", "2", "3", "4", "5", "6", "7",
      "8", "9", "a", "b", "c", "d", "e", "f">>

\* four hex digits of one limb
Hex4(n) ==
    HexDigits[((n \div 4096) % 16) + 1] \o HexDigits[((n \div 256) % 16) + 1]
    \o HexDigits[((n \div 16) % 16) + 1] \o HexDigits[(n % 16) + 1]

\* "%08x" % n
Hex8(w) == Hex4(w[1]) \o Hex4(w[2])

\* ",".join(...)
RECURSIVE JoinComma(_)
JoinComma(ss) ==
    IF Len(ss) = 0 THEN ""
    ELSE IF Len(ss) = 1 THEN ss[1]
    ELSE ss[1] \o "," \o JoinComma(Tail(ss))

\* ",".join("%08x" % n for n in l)
FormatMask(l) == JoinComma([k \in 1 .. Len(l) |-> Hex8(l[k])])

getMask(start, end) == FormatMask(getMaskWords(start, end))

(***************************************************************************)
(* Reading a mask: what the claims say about its bits                      *)
(***************************************************************************)

\* bit j (0 = least significant) of a word
WordBit(w, j) ==
    IF j < 16 THEN (w[2] \div (2 ^ j)) % 2
    ELSE (w[1] \div (2 ^ (j - 16))) % 2

\* bit i of a list of words, most-significant word first, bit 0 being the
\* least-significant bit of the last word
MaskBit(l, i) == WordBit(l[Len(l) - (i \div WORD_BITS)], i % WORD_BITS)

\* the hex digit whose bits 0..3 are the members 4n .. 4n+3 of S
NibbleOf(S, n) ==
    HexDigits[(IF 4 * n \in S THEN 1 ELSE 0) + (IF 4 * n + 1 \in S THEN 2 ELSE 0)
              + (IF 4 * n + 2 \in S THEN 4 ELSE 0)
              + (IF 4 * n + 3 \in S THEN 8 ELSE 0) + 1]

\* the text of the 256-bit mask whose set bits are exactly the members of S:
\* 8 words of 8 hex digits, most-significant first, comma-separated
MaskText(S) ==
    LET word(k) ==
            NibbleOf(S, 8 * k + 7) \o NibbleOf(S, 8 * k + 6)
            \o NibbleOf(S, 8 * k + 5) \o NibbleOf(S, 8 * k + 4)
            \o NibbleOf(S, 8 * k + 3) \o NibbleOf(S, 8 * k + 2)
            \o NibbleOf(S, 8 * k + 1) \o NibbleOf(S, 8 * k)
    IN  word(7) \o "," \o word(6) \o "," \o word(5) \o "," \o word(4) \o ","
        \o word(3) \o "," \o word(2) \o "," \o word(1) \o "," \o word(0)

(***************************************************************************)
(* getMask on its own: the arguments are drawn around the word boundaries  *)
(***************************************************************************)

\* how far from a multiple of 32 the arguments of getMask are drawn
MaskSlack == 1

MaskArgs ==
    {WORD_BITS * k + d :
        k \in 0 .. (MASK_BITS \div WORD_BITS), d \in (0 - MaskSlack) .. MaskSlack}

InitMask ==
    /\ mStart \in MaskArgs
    /\ mEnd \in MaskArgs
    /\ mWords = <<>>
    /\ mText = ""
    /\ mpc = "call"

IdleMask ==
    /\ mStart = 0
    /\ mEnd = 0
    /\ mWords = <<>>
    /\ mText = ""
    /\ mpc = "idle"

CallGetMask ==
    /\ mpc = "call"
    /\ mWords' = getMaskWords(mStart, mEnd)
    /\ mText' = getMask(mStart, mEnd)
    /\ mpc' = "returned"
    /\ UNCHANGED <<mStart, mEnd>>
    /\ UNCHANGED notMask

NextMask == CallGetMask


(***************************************************************************)
(* genPatchRoot.py: the tree under the destination directory               *)
(*                                                                         *)
(* A path is the sequence of its components below root (root itself is     *)
(* <<>>).  fs maps each existing path to its entry: a directory, a file    *)
(* with its text, or a symbolic link with its target; w is the owner's     *)
(* write permission.  The script runs as an unprivileged user with the     *)
(* usual umask, so what it creates is writable and a write to a read-only  *)
(* entry is refused.                                                       *)
(***************************************************************************)

\* the largest small core count a run is given
MaxNcpus == 2

\* the number of runs of the script against the same destination
MaxRuns == 2

\* -n: the small counts, and one count beyond the width of a mask
NcpusValues == (0 .. MaxNcpus) \cup {MASK_BITS + 1}

CpuIds == 0 .. MASK_BITS

Root == <<>>

DirEntry == [kind |-> "dir", data |-> "", w |-> TRUE]

FileEntry(text) == [kind |-> "file", data |-> text, w |-> TRUE]

LinkEntry(target) == [kind |-> "link", data |-> target, w |-> TRUE]

NoTree == [p \in {} |-> DirEntry]

Parent(p) == SubSeq(p, 1, Len(p) - 1)

Ancestors(p) == {SubSeq(p, 1, k) : k \in 0 .. Len(p)}

IsWritableDir(f, p) == p \in DOMAIN f /\ f[p].kind = "dir" /\ f[p].w

\* whether "mkdir -p" brings directory p into existence
RECURSIVE CanMkdir(_, _)
CanMkdir(f, p) ==
    IF p \in DOMAIN f THEN f[p].kind = "dir"
    ELSE IF p = Root THEN FALSE
    ELSE \/ IsWritableDir(f, Parent(p))
         \/ Parent(p) \notin DOMAIN f /\ CanMkdir(f, Parent(p))

\* cmd("mkdir -p " + d) for every d of dirs: the missing directories on the
\* way are created where permissions allow; a failure is not reported
cmd_mkdir_p(f, dirs) ==
    LET new == {q \in UNION {Ancestors(d) : d \in dirs} :
                    q \notin DOMAIN f /\ CanMkdir(f, q)}
    IN  [p \in DOMAIN f \cup new |-> IF p \in new THEN DirEntry ELSE f[p]]

\* whether path p can be opened for writing, creating or truncating it
CanWrite(f, p) ==
    IF p \in DOMAIN f THEN f[p].kind = "file" /\ f[p].w
    ELSE IsWritableDir(f, Parent(p))

\* WriteFile that appends (">>") to a file that exists
WriteFile_Append(f, p, text) ==
    IF p \in DOMAIN f THEN [f[p] EXCEPT !.data = @ \o text] ELSE FileEntry(text)

\* the file at p after it is opened for writing and text is written
WriteFile(f, p, text) ==
    IF p \in DOMAIN f THEN [f[p] EXCEPT !.data = text] ELSE FileEntry(text)

\* cmd("echo %s > %s") for every path of texts (a function from paths to the
\* text echoed, newline included); a refused redirection is not reported
cmd_echo(f, texts) ==
    LET ok == {p \in DOMAIN texts : CanWrite(f, p)}
    IN  [p \in DOMAIN f \cup ok |->
            IF p \in ok THEN WriteFile(f, p, texts[p]) ELSE f[p]]

\* cmd("ln -s " + target + " " + dir) for every link path of targets: ln
\* creates the link unless the name exists or the directory is read-only
cmd_ln_s(f, targets) ==
    LET ok == {p \in DOMAIN targets :
                    p \notin DOMAIN f /\ IsWritableDir(f, Parent(p))}
    IN  [p \in DOMAIN f \cup ok |->
            IF p \in ok THEN LinkEntry(targets[p]) ELSE f[p]]

\* chmod a-w without -R: root alone loses its write permission
cmd_chmod_a_w_R_NotRecursive(f) ==
    [p \in DOMAIN f |-> IF p = Root THEN [f[p] EXCEPT !.w = FALSE] ELSE f[p]]

\* cmd("chmod a-w -R " + root): chmod does not change symbolic links
cmd_chmod_a_w_R(f) ==
    [p \in DOMAIN f |->
        IF f[p].kind = "link" THEN f[p] ELSE [f[p] EXCEPT !.w = FALSE]]

\* the paths the script writes
ProcDir == <<"proc">>

cpuDir == <<"sys", "devices", "system", "cpu">>

nodeDir == <<"sys", "devices", "system", "node">>

n0Dir == nodeDir \o <<"node0">>

PciDir == <<"sys", "bus", "pci", "devices">>

\* "cpu" + str(cpu)
CpuName == [cpu \in CpuIds |-> "cpu" \o ToString(cpu)]

\* the cpu a directory name "cpu<n>" stands for
CpuOfName ==
    [s \in {CpuName[cpu] : cpu \in CpuIds} |->
        CHOOSE cpu \in CpuIds : CpuName[cpu] = s]

\* td = d + "topology/"
td(cpu) == cpuDir \o <<CpuName[cpu], "topology">>

TopologyFiles ==
    {"core_id", "core_siblings_list", "thread_siblings_list",
     "physical_package_id", "core_siblings", "thread_siblings", "online"}

\* the files of progDir/nodeFiles, which "cp -r" copies into node0; the
\* directory is not part of the reviewed sources, two names stand for it
NodeFiles == {"meminfo", "numastat"}

\* cpuList = "0-" + str(ncpus-1) if ncpus > 1 else "0"
cpuList(n) == IF n > 1 THEN "0-" \o ToString(n - 1) ELSE "0"

\* maxCpus = max(ncpus, 255)
maxCpus(n) == IF n > 255 THEN n ELSE 255

\* coreSiblingsMask = getMask(0, ncpus), kept per core count
coreSiblingsMask == [n \in NcpusValues |-> getMask(0, n)]

\* getMask(cpu, cpu), kept per cpu
threadSiblingsMask == [cpu \in CpuIds |-> getMask(cpu, cpu)]

\* what "echo" writes for its argument
Echo(text) == text \o "\n"

(***************************************************************************)
(* genPatchRoot.py: the build sequence                                     *)
(***************************************************************************)

\* the text written to proc/cpuinfo: one record of cpuinfo.template per cpu,
\* with CPU and NCPUS substituted.  The template is not part of the reviewed
\* sources; the text is named by what determines it.
CpuinfoText(n) == "cpuinfo.template x " \o ToString(n)

\* the text written to proc/stat: stat.template with CPUSTAT substituted by
\* the total line and one line per cpu; named by what determines it.
StatText(n) == "stat.template x " \o ToString(n)

\* the text echoed into file name of the topology directory of cpu
TopologyText(n, cpu, name) ==
    CASE name = "core_id" -> Echo(ToString(cpu))
      [] name = "core_siblings_list" -> Echo(cpuList(n))
      [] name = "thread_siblings_list" -> Echo(ToString(cpu))
      [] name = "physical_package_id" -> Echo("0")
      [] name = "core_siblings" -> Echo(coreSiblingsMask[n])
      [] name = "thread_siblings" -> Echo(threadSiblingsMask[cpu])
      [] name = "online" -> Echo("1")

\* the echo commands of lines 113-118
CpuDirTexts(n) ==
    [p \in {cpuDir \o <<name>> :
              name \in {"online", "possible", "present", "offline",
                        "sched_mc_power_savings", "kernel_max"}} |->
        CASE p[5] \in {"online", "possible", "present"} -> Echo(cpuList(n))
          [] p[5] = "offline" -> Echo("")
          [] p[5] = "sched_mc_power_savings" -> Echo("0")
          [] p[5] = "kernel_max" -> Echo(ToString(maxCpus(n)))]

\* the echo commands of the loop of lines 120-132, over all cpus
TopologyTexts(n) ==
    [p \in {td(cpu) \o <<name>> : cpu \in 0 .. n - 1, name \in TopologyFiles} |->
        TopologyText(n, CpuOfName[p[5]], p[7])]

\* the tree after lines 110-132
WriteCpusTree(f, n) ==
    LET f1 == cmd_mkdir_p(f, {cpuDir})
        f2 == cmd_echo(f1, CpuDirTexts(n))
        f3 == cmd_mkdir_p(f2, {td(cpu) : cpu \in 0 .. n - 1})
    IN  cmd_echo(f3, TopologyTexts(n))

\* the echo commands of lines 137-138
NodeDirTexts ==
    [p \in {nodeDir \o <<name>> :
              name \in {"has_normal_memory", "online", "possible", "has_cpu"}} |->
        IF p[5] = "has_cpu" THEN Echo("") ELSE Echo("0")]

\* "ln -s " + cpuDir + "cpu" + str(cpu) + " " + n0Dir, over all cpus
NodeLinks(n) ==
    [p \in {n0Dir \o <<CpuName[cpu]>> : cpu \in 0 .. n - 1} |->
        "root/sys/devices/system/cpu/" \o p[6]]

\* "cp -r %s/nodeFiles/* %s": each file is written over its copy in node0
NodeFileTexts ==
    [p \in {n0Dir \o <<name>> : name \in NodeFiles} |-> "nodeFiles/" \o p[6]]

\* the echo commands of lines 145-146
Node0Texts(n) ==
    [p \in {n0Dir \o <<"cpumap">>, n0Dir \o <<"cpulist">>} |->
        IF p[6] = "cpumap" THEN Echo(coreSiblingsMask[n]) ELSE Echo(cpuList(n))]

\* the tree after lines 135-146
WriteNodesTree(f, n) ==
    LET f1 == cmd_mkdir_p(f, {nodeDir})
        f2 == cmd_echo(f1, NodeDirTexts)
        f3 == cmd_mkdir_p(f2, {n0Dir})
        f4 == cmd_ln_s(f3, NodeLinks(n))
        f5 == cmd_echo(f4, NodeFileTexts)
    IN  cmd_echo(f5, Node0Texts(n))

Ended == pc \in {"idle", "done", "exited", "crashed"}

InitBuild ==
    /\ fs = NoTree
    /\ pc = "idle"
    /\ ncpus = 1
    /\ force = FALSE
    /\ nargs = 0
    /\ exitCode = 0
    /\ warnings = 0
    /\ runs = 0
    /\ before = NoTree
    /\ prev = -1

IdleBuild == InitBuild

\* the script is started: parser.parse_args() gives ncpus, force and args.
\* before keeps the tree the run finds, and prev the core count of the run
\* just ended if that run was a complete build with -f (-1 otherwise).
Start ==
    /\ Ended
    /\ runs < MaxRuns
    /\ ncpus' \in NcpusValues
    /\ force' \in BOOLEAN
    /\ nargs' \in 0 .. 1
    /\ pc' = "check"
    /\ exitCode' = 0
    /\ warnings' = 0
    /\ runs' = runs + 1
    /\ before' = fs
    /\ prev' = IF pc = "done" /\ force THEN ncpus ELSE -1
    /\ UNCHANGED fs
    /\ UNCHANGED notBuild

\* the checks of lines 69-79
OptionsRefused ==
    \/ ncpus < 1
    \/ Root \in DOMAIN fs /\ ~force
    \/ nargs > 0

\* CheckOptions with the mkdir of line 81 moved before the checks
CheckOptions_MkdirFirst ==
    /\ pc = "check"
    /\ fs' = IF Root \in DOMAIN fs THEN fs ELSE (Root :> DirEntry) @@ fs
    /\ IF OptionsRefused
       THEN pc' = "exited" /\ exitCode' = 1
       ELSE pc' = "mkroot" /\ UNCHANGED exitCode
    /\ UNCHANGED <<ncpus, force, nargs, warnings, runs, before, prev>>
    /\ UNCHANGED notBuild

CheckOptions ==
    /\ pc = "check"
    /\ IF OptionsRefused
       THEN pc' = "exited" /\ exitCode' = 1
       ELSE pc' = "mkroot" /\ UNCHANGED exitCode
    /\ UNCHANGED <<fs, ncpus, force, nargs, warnings, runs, before, prev>>
    /\ UNCHANGED notBuild

\* lines 81-84: mkdir -p root, which the directory above root may refuse
MakeRoot ==
    /\ pc = "mkroot"
    /\ \/ Root \in DOMAIN fs /\ UNCHANGED fs
       \/ Root \notin DOMAIN fs /\ fs' = (Root :> DirEntry) @@ fs
    /\ pc' = "proc"
    /\ UNCHANGED <<ncpus, force, nargs, exitCode, warnings, runs, before, prev>>
    /\ UNCHANGED notBuild

MakeRootFails ==
    /\ pc = "mkroot"
    /\ Root \notin DOMAIN fs
    /\ pc' = "exited"
    /\ exitCode' = 1
    /\ UNCHANGED <<fs, ncpus, force, nargs, warnings, runs, before, prev>>
    /\ UNCHANGED notBuild

\* lines 89-105: open(..., "w") raises IOError when the file cannot be
\* opened for writing, and the script ends with a traceback
WriteProc ==
    /\ pc = "proc"
    /\ LET cpuinfo == ProcDir \o <<"cpuinfo">>
           stat    == ProcDir \o <<"stat">>
           f1 == cmd_mkdir_p(fs, {ProcDir})
           f2 == (cpuinfo :> WriteFile(f1, cpuinfo, CpuinfoText(ncpus))) @@ f1
           f3 == (stat :> WriteFile(f2, stat, StatText(ncpus))) @@ f2
       IN  IF ~CanWrite(f1, cpuinfo)
           THEN fs' = f1 /\ pc' = "crashed" /\ exitCode' = 1
           ELSE IF ~CanWrite(f2, stat)
           THEN fs' = f2 /\ pc' = "crashed" /\ exitCode' = 1
           ELSE fs' = f3 /\ pc' = "cpus" /\ UNCHANGED exitCode
    /\ UNCHANGED <<ncpus, force, nargs, warnings, runs, before, prev>>
    /\ UNCHANGED notBuild

\* lines 110-132
WriteCpus ==
    /\ pc = "cpus"
    /\ fs' = WriteCpusTree(fs, ncpus)
    /\ warnings' = IF maxCpus(ncpus) > 255 THEN ncpus ELSE 0
    /\ pc' = "nodes"
    /\ UNCHANGED <<ncpus, force, nargs, exitCode, runs, before, prev>>
    /\ UNCHANGED notBuild

\* lines 135-146
WriteNodes ==
    /\ pc = "nodes"
    /\ fs' = WriteNodesTree(fs, ncpus)
    /\ pc' = "misc"
    /\ UNCHANGED <<ncpus, force, nargs, exitCode, warnings, runs, before, prev>>
    /\ UNCHANGED notBuild

\* line 149
WriteMisc ==
    /\ pc = "misc"
    /\ fs' = cmd_mkdir_p(fs, {PciDir})
    /\ pc' = "chmod"
    /\ UNCHANGED <<ncpus, force, nargs, exitCode, warnings, runs, before, prev>>
    /\ UNCHANGED notBuild

\* lines 152-153, and the end of the script
MakeReadOnly ==
    /\ pc = "chmod"
    /\ fs' = IF ~force THEN cmd_chmod_a_w_R(fs) ELSE fs
    /\ pc' = "done"
    /\ UNCHANGED <<ncpus, force, nargs, exitCode, warnings, runs, before, prev>>
    /\ UNCHANGED notBuild

NextBuild ==
    \/ Start
    \/ CheckOptions
    \/ MakeRoot
    \/ MakeRootFails
    \/ WriteProc
    \/ WriteCpus
    \/ WriteNodes
    \/ WriteMisc
    \/ MakeReadOnly

(***************************************************************************)
(* ffControl.py                                                            *)
(*                                                                         *)
(* A line of stdin is held by what the loop asks of it: seg, whether it    *)
(* starts with "[H] Global segment shmid = "; num, whether int() accepts   *)
(* what follows the "="; id, that number; hit, whether it contains         *)
(* opts.lineMatch.                                                         *)
(***************************************************************************)

\* the longest input
MaxInput == 3

\* the largest --maxMatches
MaxMatches == 2

\* the largest shmid a line names
MaxShmid == 1

\* how many times the end of the input is read
MaxEofReads == 2

PlainLine(h) == [seg |-> FALSE, num |-> FALSE, id |-> 0, hit |-> h]

ShmidLine(n, h) == [seg |-> TRUE, num |-> TRUE, id |-> n, hit |-> h]

\* a segment line whose number int() rejects
BadShmidLine(h) == [seg |-> TRUE, num |-> FALSE, id |-> 0, hit |-> h]

InputLines ==
    {PlainLine(h) : h \in BOOLEAN}
    \cup {ShmidLine(n, h) : n \in -1 .. MaxShmid, h \in BOOLEAN}
    \cup {BadShmidLine(h) : h \in BOOLEAN}

Inputs == UNION {[1 .. n -> InputLines] : n \in 0 .. MaxInput}

\* sys.stdin.readline() at the end of the input returns "", which contains
\* opts.lineMatch only when that is the empty string
EofLine == PlainLine(emptyMatch)

\* the k-th line readline() returns
LineRead(k) == IF k <= Len(stdin) THEN stdin[k] ELSE EofLine

\* the number of readline() calls so far
reads == pos + eofReads

InitWatch ==
    /\ maxMatches \in -1 .. MaxMatches
    /\ emptyMatch \in BOOLEAN
    /\ stdin \in Inputs
    /\ emptyMatch => \A k \in 1 .. Len(stdin) : stdin[k].hit
    /\ pos = 0
    /\ eofReads = 0
    /\ targetShmid = -1
    /\ matches = 0
    /\ calls = <<>>
    /\ wpc = "loop"

IdleWatch ==
    /\ maxMatches = 0
    /\ emptyMatch = FALSE
    /\ stdin = <<>>
    /\ pos = 0
    /\ eofReads = 0
    /\ targetShmid = -1
    /\ matches = 0
    /\ calls = <<>>
    /\ wpc = "idle"

\* the loop condition written with <=
LoopCondition_OneMore == matches <= maxMatches \/ maxMatches <= 0

\* while matches < opts.maxMatches or opts.maxMatches <= 0
LoopCondition == matches < maxMatches \/ maxMatches <= 0

\* lines 44-46: the target after the line is seen
TargetAfter(line) == IF line.seg THEN line.id ELSE targetShmid

\* Fires without the test "targetShmid >= 0" of line 50
Fires_NoShmidTest(line) == line.hit

\* lines 48-55: whether the line calls fftoggle
Fires(line) == line.hit /\ TargetAfter(line) >= 0

\* one iteration of the loop, lines 38-55
Iterate ==
    /\ wpc = "loop"
    /\ LoopCondition
    /\ pos < Len(stdin) \/ eofReads < MaxEofReads
    /\ LET line == LineRead(pos + 1)
       IN  /\ IF pos < Len(stdin)
              THEN pos' = pos + 1 /\ UNCHANGED eofReads
              ELSE eofReads' = eofReads + 1 /\ UNCHANGED pos
           /\ IF line.seg /\ ~line.num
              THEN \* int() raises ValueError
                   /\ wpc' = "crashed"
                   /\ UNCHANGED <<targetShmid, matches, calls>>
              ELSE /\ targetShmid' = TargetAfter(line)
                   /\ IF Fires(line)
                      THEN /\ matches' = matches + 1
                           /\ calls' = Append(calls,
                                  [shmid |-> TargetAfter(line), read |-> reads + 1])
                      ELSE UNCHANGED <<matches, calls>>
                   /\ UNCHANGED wpc
    /\ UNCHANGED <<stdin, maxMatches, emptyMatch>>
    /\ UNCHANGED notWatch

\* lines 39-42: readline() raises (the read is interrupted), the loop is
\* left by break
ReadRaises ==
    /\ wpc = "loop"
    /\ LoopCondition
    /\ wpc' = "stdin done"
    /\ UNCHANGED <<stdin, pos, eofReads, maxMatches, emptyMatch, targetShmid,
                   matches, calls>>
    /\ UNCHANGED notWatch

\* the loop condition fails; line 55 prints the count
LoopExit ==
    /\ wpc = "loop"
    /\ ~LoopCondition
    /\ wpc' = "done"
    /\ UNCHANGED <<stdin, pos, eofReads, maxMatches, emptyMatch, targetShmid,
                   matches, calls>>
    /\ UNCHANGED notWatch

NextWatch ==
    \/ Iterate
    \/ ReadRaises
    \/ LoopExit

(***************************************************************************)
(* lint_includes.py                                                        *)
(*                                                                         *)
(* A line is the sequence of its tokens; the tokens are the pieces the     *)
(* script looks for.  No token is the beginning of another, so comparing   *)
(* lines token by token in the order of TokenRank is Python's comparison   *)
(* of the strings.  The file linted is foo.<ext>, so bName is "foo".       *)
(***************************************************************************)

\* the longest file, in lines
MaxFileLines == 4

SP == " "

INC == "#include"

\* the tokens in the order of their first characters: space, double quote,
\* "#", the digits of prefix(), "<", "N", "i"
TokenOrder ==
    <<SP, "\"bar.h\"", "\"foo.h\"", INC, "1", "2", "4", "<a>", "<b>",
      "NOLINT", "int">>

TokenRank == [t \in {TokenOrder[k] : k \in 1 .. Len(TokenOrder)} |->
                 CHOOSE k \in 1 .. Len(TokenOrder) : TokenOrder[k] = t]

\* the lines a file is made of
FileLines ==
    { <<INC, SP, "<a>">>,
      <<INC, SP, "<b>">>,
      <<INC, SP, "\"foo.h\"">>,
      <<INC, SP, "\"bar.h\"">>,
      <<SP, INC, SP, "\"bar.h\"">>,
      <<INC, SP, "<a>", SP, "NOLINT">>,
      <<INC, SP, "\"foo.h\"", SP, "<a>">>,
      <<>>,
      <<"int">> }

Files == UNION {[1 .. n -> FileLines] : n \in 1 .. MaxFileLines}

\* l.strip()
RECURSIVE lstrip(_)
lstrip(l) == IF Len(l) > 0 /\ l[1] = SP THEN lstrip(Tail(l)) ELSE l

RECURSIVE rstrip(_)
rstrip(l) ==
    IF Len(l) > 0 /\ l[Len(l)] = SP THEN rstrip(SubSeq(l, 1, Len(l) - 1)) ELSE l

strip(l) == rstrip(lstrip(l))

\* l.find(t) >= 0, for a token t
Contains(l, t) == \E k \in 1 .. Len(l) : l[k] = t

\* l.find("<") >= 0
ContainsAngle(l) == Contains(l, "<a>") \/ Contains(l, "<b>")

\* a < b for two strings
RECURSIVE StrLess(_, _)
StrLess(a, b) ==
    IF Len(b) = 0 THEN FALSE
    ELSE IF Len(a) = 0 THEN TRUE
    ELSE IF a[1] = b[1] THEN StrLess(Tail(a), Tail(b))
    ELSE TokenRank[a[1]] < TokenRank[b[1]]

\* sorted(ll)
RECURSIVE sorted(_)
sorted(ll) ==
    IF Len(ll) = 0 THEN <<>>
    ELSE LET rest == sorted(Tail(ll))
             x    == ll[1]
             n    == Cardinality({k \in 1 .. Len(rest) : StrLess(rest[k], x)})
         IN  SubSeq(rest, 1, n) \o <<x>> \o SubSeq(rest, n + 1, Len(rest))

\* prefix(l) with the own header ranked after the other includes
prefix_OwnHeaderLast(l) ==
    IF ContainsAngle(l) THEN "2"
    ELSE IF Contains(l, "\"foo.h\"") THEN "4"
    ELSE "1"

\* prefix(l) of sortIncludes; fname is "foo"
prefix(l) ==
    IF ContainsAngle(l) THEN "2"
    ELSE IF Contains(l, "\"foo.h\"") THEN "1"
    ELSE "4"

\* ll = [prefix(l) + l.strip() for l in lines if len(l.strip()) > 0]
RECURSIVE TaggedLines(_)
TaggedLines(ls) ==
    IF Len(ls) = 0 THEN <<>>
    ELSE (IF Len(strip(ls[1])) > 0
          THEN << <<prefix(ls[1])>> \o strip(ls[1]) >>
          ELSE <<>>)
         \o TaggedLines(Tail(ls))

\* sortIncludes(lines, fname), lines being the block
sortIncludes(block) ==
    LET ll == TaggedLines(block)
        sl == [k \in 1 .. Len(ll) |-> Tail(sorted(ll)[k])]
    IN  IF strip(block[Len(block)]) = <<>> THEN sl \o << <<>> >> ELSE sl

\* lines 63-65
isInclude(l) == Len(strip(l)) > 0 /\ strip(l)[1] = INC /\ ~Contains(l, "NOLINT")

isEmpty(l) == strip(l) = <<>>

\* the loop of lines 62-71 from line i on (0-based), with the locals
\* blockStart and includeBlocks
RECURSIVE FindBlocks(_, _, _, _)
FindBlocks(ls, i, blockStart, blocks) ==
    IF i = Len(ls) THEN blocks
    ELSE LET l == ls[i + 1]
         IN  IF blockStart = -1
             THEN FindBlocks(ls, i + 1, IF isInclude(l) THEN i ELSE -1, blocks)
             ELSE IF ~(isInclude(l) \/ isEmpty(l))
             THEN FindBlocks(ls, i + 1, -1, Append(blocks, <<blockStart, i>>))
             ELSE FindBlocks(ls, i + 1, blockStart, blocks)

\* lines[s:e]
Slice(ls, s, e) == SubSeq(ls, s + 1, e)

\* lines 85-90, from block k on, with the locals prevIdx and newLines
RECURSIVE Assemble(_, _, _, _, _)
Assemble(ls, incs, k, prevIdx, acc) ==
    IF k > Len(incs) THEN acc \o Slice(ls, prevIdx, Len(ls))
    ELSE Assemble(ls, incs, k + 1, incs[k][2],
                  acc \o Slice(ls, prevIdx, incs[k][1]) \o incs[k][3])

InitLint ==
    /\ file \in Files
    /\ lines = <<>>
    /\ includeBlocks = <<>>
    /\ newIncludes = <<>>
    /\ newLines = <<>>
    /\ writes = 0
    /\ lpc = "open"

IdleLint ==
    /\ file = << <<>> >>
    /\ lines = <<>>
    /\ includeBlocks = <<>>
    /\ newIncludes = <<>>
    /\ newLines = <<>>
    /\ writes = 0
    /\ lpc = "idle"

\* the body of "for src in srcs", lines 51-96, for one file; dryRun is False.
\* txt.split("\n") and "\n".join(newLines) are inverse to each other: the
\* text of the file is held as its list of lines.
LintFile ==
    /\ lpc = "open"
    /\ LET ls     == file
           blocks == FindBlocks(ls, 0, -1, <<>>)
           incs   == [k \in 1 .. Len(blocks) |->
                        <<blocks[k][1], blocks[k][2],
                          sortIncludes(Slice(ls, blocks[k][1], blocks[k][2]))>>]
           out    == Assemble(ls, incs, 1, 0, <<>>)
       IN  /\ lines' = ls
           /\ includeBlocks' = blocks
           /\ newIncludes' = incs
           /\ newLines' = out
           /\ IF Len(blocks) > 0
              THEN file' = out /\ writes' = writes + 1
              ELSE UNCHANGED <<file, writes>>
    /\ lpc' = "done"
    /\ UNCHANGED notLint

NextLint == LintFile

(***************************************************************************)
(* The specifications                                                      *)
(***************************************************************************)

MaskInit == InitMask /\ IdleBuild /\ IdleWatch /\ IdleLint

SpecMask == MaskInit /\ [][NextMask]_vars

BuildInit == IdleMask /\ InitBuild /\ IdleWatch /\ IdleLint

SpecBuild == BuildInit /\ [][NextBuild]_vars

WatchInit == IdleMask /\ IdleBuild /\ InitWatch /\ IdleLint

SpecWatch == WatchInit /\ [][NextWatch]_vars

LintInit == IdleMask /\ IdleBuild /\ IdleWatch /\ InitLint

SpecLint == LintInit /\ [][NextLint]_vars

(***************************************************************************)
(* genPatchRoot.py: the claims                                             *)
(***************************************************************************)

\* whether text is what echo writes for the mask whose set bits are exactly
\* the members of S; a mask has the bit positions 0 .. 255 and no other
HoldsMask(text, S) == S \subseteq 0 .. MASK_BITS - 1 /\ text = Echo(MaskText(S))

\* the text of the mask with the single bit c, per bit position
OneBitText == [c \in 0 .. MASK_BITS - 1 |-> Echo(MaskText({c}))]

\* the text of the mask with the bits 0 .. n-1, per core count
LowBitsText == [n \in NcpusValues |-> Echo(MaskText(0 .. n - 1))]

NoBitText == Echo(MaskText({}))

CoreSiblingsFile(cpu) == td(cpu) \o <<"core_siblings">>

ThreadSiblingsFile(cpu) == td(cpu) \o <<"thread_siblings">>

CpumapFile == n0Dir \o <<"cpumap">>

TextAt(p) == IF p \in DOMAIN fs THEN fs[p].data ELSE "(no such file)"

\* C1: for a core count in 1..256 a complete build leaves in core_siblings of
\* every cpu and in node0/cpumap the mask whose set bits are exactly
\* 0 .. coreCount-1
C1_CoreSiblingsMask ==
    (pc = "done" /\ ncpus \in 1 .. MASK_BITS) =>
        /\ \A cpu \in 0 .. ncpus - 1 : TextAt(CoreSiblingsFile(cpu)) = LowBitsText[ncpus]
        /\ TextAt(CpumapFile) = LowBitsText[ncpus]

\* the precondition failures of the builder, on the tree the run found
PreconditionFails ==
    \/ ncpus < 1
    \/ Root \in DOMAIN before /\ ~force
    \/ nargs > 0

C3_Idempotent ==
    (pc = "done" /\ force /\ prev = ncpus) => fs = before

C3_Witness ==
    /\ pc = "done"
    /\ force
    /\ prev = ncpus
    /\ ncpus = 2
    /\ ThreadSiblingsFile(1) \in DOMAIN fs
    /\ n0Dir \o <<CpuName[1]>> \in DOMAIN fs

\* C4 as stated: after a complete build thread_siblings of every cpu c below
\* coreCount holds exactly one bit, at position c
C4_Original ==
    pc = "done" =>
        \A cpu \in 0 .. ncpus - 1 : HoldsMask(TextAt(ThreadSiblingsFile(cpu)), {cpu})

\* C4 amended: after a complete build thread_siblings of every cpu c below
\* coreCount and below 256 holds exactly one bit, at position c; for c >= 256
\* it holds no bit
C4_ThreadSiblings ==
    pc = "done" =>
        \A cpu \in 0 .. ncpus - 1 :
            IF cpu < MASK_BITS
            THEN TextAt(ThreadSiblingsFile(cpu)) = OneBitText[cpu]
            ELSE TextAt(ThreadSiblingsFile(cpu)) = NoBitText

C4_Witness ==
    /\ pc = "done"
    /\ ncpus = MASK_BITS + 1
    /\ TextAt(ThreadSiblingsFile(MASK_BITS - 1)) = OneBitText[MASK_BITS - 1]
    /\ TextAt(ThreadSiblingsFile(MASK_BITS)) = NoBitText

\* every file and directory under root (root included) is read-only
AllReadOnly(f) == \A p \in DOMAIN f : f[p].kind # "link" => ~f[p].w

AllWritable(f) == \A p \in DOMAIN f : f[p].w

\* C6: after a complete build every file and directory of the tree is
\* read-only if and only if force was not set.  Without force nothing is
\* read-only before the last step, which comes after every file is written;
\* with force no permission of the tree the run found is changed.
C6_ReadOnlyIffNotForce ==
    /\ pc = "done" =>
          /\ AllReadOnly(fs) <=> ~force
          /\ {ProcDir \o <<"stat">>, CpumapFile, n0Dir \o <<"cpulist">>, PciDir}
                \subseteq DOMAIN fs
    /\ (pc \in {"proc", "cpus", "nodes", "misc", "chmod"} /\ ~force) => AllWritable(fs)
    /\ (pc # "idle" /\ force) =>
          \A p \in DOMAIN before : p \in DOMAIN fs /\ fs[p].w = before[p].w

C6_Witness ==
    /\ pc = "done"
    /\ ~force
    /\ ncpus = 2
    /\ AllReadOnly(fs)
    /\ ThreadSiblingsFile(1) \in DOMAIN fs
    /\ PciDir \in DOMAIN fs

(***************************************************************************)
(* getMask: the claim                                                      *)
(***************************************************************************)

\* C5: getMask(start, end) returns 8 words of 32 bits, most-significant word
\* first, in which bit i (0 <= i < 256) is set if and only if
\* start <= i <= end; its text is the 8 words in hex, and getMask(0, 0) is
\* seven zero words followed by 00000001
C5_GetMaskBits ==
    mpc = "returned" =>
        /\ Len(mWords) = MASK_BITS \div WORD_BITS
        /\ \A k \in 1 .. Len(mWords) :
              /\ Len(mWords[k]) = 2
              /\ mWords[k][1] \in 0 .. 65535
              /\ mWords[k][2] \in 0 .. 65535
        /\ \A i \in 0 .. MASK_BITS - 1 :
              (MaskBit(mWords, i) = 1) <=> (mStart <= i /\ i <= mEnd)
        /\ mText = MaskText({i \in 0 .. MASK_BITS - 1 : mStart <= i /\ i <= mEnd})
        /\ (mStart = 0 /\ mEnd = 0) =>
              mText = "00000000,00000000,00000000,00000000,00000000,00000000,00000000,00000001"

C5_Witness ==
    /\ mpc = "returned"
    /\ mStart = 0
    /\ mEnd = 0
    /\ mText = "00000000,00000000,00000000,00000000,00000000,00000000,00000000,00000001"

(***************************************************************************)
(* ffControl.py: the claims                                                *)
(***************************************************************************)

\* the reads among the first r that gave a well-formed segment line
SegReads(r) == {j \in 1 .. r : LineRead(j).seg /\ LineRead(j).num}

\* the shmid most recently read when r lines are read, -1 when none is
ShmidAt(r) ==
    IF SegReads(r) = {} THEN -1
    ELSE LineRead(CHOOSE j \in SegReads(r) : \A i \in SegReads(r) : i <= j).id

\* C7: with maxMatches = N > 0 fftoggle is invoked at most N times, no line
\* is read after the N-th invocation, and the loop is left by its condition
\* only when N invocations are made; with maxMatches = 0 the loop is never
\* left because of the number of invocations
C7_MaxMatches ==
    /\ maxMatches > 0 =>
          /\ Len(calls) <= maxMatches
          /\ Len(calls) = maxMatches => reads = calls[maxMatches].read
          /\ wpc = "done" => Len(calls) = maxMatches
    /\ maxMatches <= 0 => wpc # "done"

C7_Witness ==
    /\ maxMatches = 2
    /\ wpc = "done"
    /\ Len(calls) = 2
    /\ pos < Len(stdin)
    /\ stdin[pos + 1].hit

\* C8: the match counter equals the number of fftoggle invocations; every
\* invocation is made on reading a matching line, after a segment line with
\* shmid >= 0 has been read, and passes the shmid most recently read; a
\* matching line read while the shmid most recently read is negative or none
\* is read invokes nothing
C8_ValidShmidFirst ==
    /\ matches = Len(calls)
    /\ \A k \in 1 .. Len(calls) :
          LET r == calls[k].read
          IN  /\ r \in 1 .. reads
              /\ LineRead(r).hit
              /\ \E j \in SegReads(r) : LineRead(j).id >= 0
              /\ calls[k].shmid >= 0
              /\ calls[k].shmid = ShmidAt(r)
    /\ \A k \in 1 .. Len(calls) - 1 : calls[k].read < calls[k + 1].read
    /\ \A r \in 1 .. reads :
          (LineRead(r).hit /\ ShmidAt(r) < 0) =>
              \A k \in 1 .. Len(calls) : calls[k].read # r

C8_Witness ==
    /\ Len(stdin) = 3
    /\ stdin[1] = PlainLine(TRUE)
    /\ stdin[2] = ShmidLine(0, TRUE)
    /\ stdin[3] = ShmidLine(1, TRUE)
    /\ pos = 3
    /\ matches = 2
    /\ calls = << [shmid |-> 0, read |-> 2], [shmid |-> 1, read |-> 3] >>

\* C9: once the end of the input is read the loop is left: no state has the
\* end of the input read and the loop about to iterate again
C9_TerminatesAtEndOfInput ==
    eofReads >= 1 => ~(wpc = "loop" /\ LoopCondition)

(***************************************************************************)
(* lint_includes.py: the claims                                            *)
(***************************************************************************)

\* a line that closes a block: neither an include (without NOLINT) nor blank
Closes(l) == ~isInclude(l) /\ ~isEmpty(l)

\* the blocks of ls, as pairs <<s, e>> of 1-based line numbers: the block
\* is the lines s .. e-1, line s is an include that no earlier block holds,
\* line e is the first line after s that closes
BlockSet(ls) ==
    {b \in (1 .. Len(ls)) \X (1 .. Len(ls)) :
        /\ b[1] < b[2]
        /\ isInclude(ls[b[1]])
        /\ Closes(ls[b[2]])
        /\ \A k \in b[1] .. b[2] - 1 : ~Closes(ls[k])
        /\ \A k \in 1 .. b[1] - 1 :
              isInclude(ls[k]) => \E c \in k + 1 .. b[1] - 1 : Closes(ls[c])}

NonBlank(ls, b) == {k \in b[1] .. b[2] - 1 : ~isEmpty(ls[k])}

\* the length of the block b of ls when rewritten; trailing says whether a
\* block whose last line is blank keeps one empty line
NewLen(ls, b, trailing) ==
    Cardinality(NonBlank(ls, b))
    + (IF trailing /\ isEmpty(ls[b[2] - 1]) THEN 1 ELSE 0)

RECURSIVE Growth(_, _, _)
Growth(ls, B, trailing) ==
    IF B = {} THEN 0
    ELSE LET b == CHOOSE x \in B : TRUE
         IN  NewLen(ls, b, trailing) - (b[2] - b[1]) + Growth(ls, B \ {b}, trailing)

\* where line i of ls, a line outside the blocks or the first of a block,
\* is found in the rewritten file
NewIndex(ls, i, trailing) ==
    i + Growth(ls, {b \in BlockSet(ls) : b[2] <= i}, trailing)

\* the group of a stripped include line: 1 the own header, 2 the includes
\* that contain "<", 3 the others; angleFirst says whether "<" is looked
\* for before the own header
Group(l, angleFirst) ==
    IF angleFirst
    THEN (IF ContainsAngle(l) THEN 2 ELSE IF Contains(l, "\"foo.h\"") THEN 1 ELSE 3)
    ELSE (IF Contains(l, "\"foo.h\"") THEN 1 ELSE IF ContainsAngle(l) THEN 2 ELSE 3)

Count(seq, x) == Cardinality({k \in 1 .. Len(seq) : seq[k] = x})

\* whether out is ls with every block rewritten and nothing else changed
Linted(ls, out, trailing, angleFirst) ==
    LET B == BlockSet(ls)
        inBlock == UNION {b[1] .. b[2] - 1 : b \in B}
    IN  /\ Len(out) = Len(ls) + Growth(ls, B, trailing)
        /\ \A i \in (1 .. Len(ls)) \ inBlock :
              LET n == NewIndex(ls, i, trailing)
              IN  n \in 1 .. Len(out) /\ out[n] = ls[i]
        /\ \A i, j \in (1 .. Len(ls)) \ inBlock :
              i < j => NewIndex(ls, i, trailing) < NewIndex(ls, j, trailing)
        /\ \A b \in B :
              LET first == NewIndex(ls, b[1], trailing)
                  n     == Cardinality(NonBlank(ls, b))
                  body  == [k \in 1 .. n |-> out[first + k - 1]]
                  old   == [k \in b[1] .. b[2] - 1 |-> strip(ls[k])]
              IN  /\ first + NewLen(ls, b, trailing) - 1 <= Len(out)
                  /\ \A k \in 1 .. n :
                        /\ body[k] # <<>>
                        /\ Count(body, body[k])
                              = Cardinality({m \in DOMAIN old : old[m] = body[k]})
                  /\ \A k \in 1 .. n - 1 :
                        \/ Group(body[k], angleFirst) < Group(body[k + 1], angleFirst)
                        \/ /\ Group(body[k], angleFirst) = Group(body[k + 1], angleFirst)
                           /\ ~StrLess(body[k + 1], body[k])
                  /\ NewLen(ls, b, trailing) > n => out[first + n] = <<>>

\* C10 as stated: the rewritten block is the block's non-blank lines,
\* stripped, the own header first, then the includes containing "<", then
\* the others, each group in lexicographic order; the lines outside the
\* blocks are unchanged; a file without a block is not written
C10_Original ==
    lpc = "done" =>
        IF BlockSet(lines) = {}
        THEN writes = 0 /\ file = lines
        ELSE writes = 1 /\ Linted(lines, file, FALSE, FALSE)

\* C10 amended: the rewritten block is the block's non-blank lines,
\* stripped, followed by one empty line when the block's last line is
\* blank; the lines are ordered as the own header without "<" first, then
\* the includes containing "<", then the others, each group in
\* lexicographic order; the lines outside the blocks are unchanged; a file
\* without a block is not written
C10_LintedBlocks ==
    lpc = "done" =>
        IF BlockSet(lines) = {}
        THEN writes = 0 /\ file = lines
        ELSE writes = 1 /\ Linted(lines, file, TRUE, TRUE)

C10_Witness ==
    /\ lpc = "done"
    /\ writes = 1
    /\ lines = << <<SP, INC, SP, "\"bar.h\"">>, <<INC, SP, "\"foo.h\"">>, <<>>, <<"int">> >>
    /\ file = << <<INC, SP, "\"foo.h\"">>, <<INC, SP, "\"bar.h\"">>, <<>>, <<"int">> >>

====
